---- MODULE Spec2Model ----
(***************************************************************************)
(* Model of hvac/utils.py: raise_for_error (status code -> exception) and  *)
(* deprecated_method (decorator emitting a DeprecationWarning per call).   *)
(*                                                                         *)
(* Text is modelled as a sequence of characters.  A character is either    *)
(* the space SP, the line break NL, or an opaque token standing for a run  *)
(* of non-whitespace-leading characters with no line break in it.          *)
(***************************************************************************)
EXTENDS Naturals, Integers, Sequences, FiniteSets, TLC

\* ------------------------------------------------------------------ bounds
NThreads == 3
NSites == 2
MaxCalls == 3

\* -------------------------------------------------------- program constants
\* the indentation of the docstring template inside decorator()
TemplateIndent == 16

\* ------------------------------------------------------------- basic values
SP == " "
NL == "\n"
\* the backquote character
BQ == "BQ"

\* Python's None and a present value
None == [some |-> FALSE]
Some(v) == [some |-> TRUE, val |-> v]

Spaces(n) == [i \in 1..n |-> SP]

\* str.format() of a value: a string is itself, None is the text "None"
FormatValue(o) == IF o.some THEN o.val ELSE <<"None">>

\* truthiness of an optional string: None and "" are false
Truthy(o) == o.some /\ o.val # <<>>

\* --------------------------------------------------------- textwrap.dedent
RECURSIVE SplitLines(_)
\* text.split("\n"): the lines of a text, line breaks removed
SplitLines(text) ==
    IF \A i \in 1..Len(text) : text[i] # NL
    THEN <<text>>
    ELSE LET k == CHOOSE i \in 1..Len(text) :
                      text[i] = NL /\ \A j \in 1..(i-1) : text[j] # NL
         IN <<SubSeq(text, 1, k-1)>> \o SplitLines(SubSeq(text, k+1, Len(text)))

RECURSIVE JoinLines(_)
\* "\n".join(lines)
JoinLines(lines) ==
    IF Len(lines) = 0 THEN <<>>
    ELSE IF Len(lines) = 1 THEN lines[1]
    ELSE lines[1] \o <<NL>> \o JoinLines(Tail(lines))

\* a line the pattern ^[ \t]+$ matches
WhitespaceOnly(line) == Len(line) > 0 /\ \A i \in 1..Len(line) : line[i] = SP

\* the length of the run of spaces a line starts with
LeadingSpaces(line) ==
    IF \A i \in 1..Len(line) : line[i] = SP THEN Len(line)
    ELSE (CHOOSE i \in 1..Len(line) :
              line[i] # SP /\ \A j \in 1..(i-1) : line[j] = SP) - 1

Min(S) == CHOOSE x \in S : \A y \in S : x <= y

\* textwrap.dedent(text): whitespace-only lines become empty, then the
\* longest run of spaces common to all lines with content is removed from
\* the start of each of them
dedent(text) ==
    LET raw == SplitLines(text)
        lines == [i \in 1..Len(raw) |->
                     IF WhitespaceOnly(raw[i]) THEN <<>> ELSE raw[i]]
        indents == {LeadingSpaces(lines[i]) :
                       i \in {j \in 1..Len(lines) : lines[j] # <<>>}}
        margin == IF indents = {} THEN 0 ELSE Min(indents)
    IN JoinLines([i \in 1..Len(lines) |->
                     IF lines[i] = <<>> THEN <<>>
                     ELSE SubSeq(lines[i], margin + 1, Len(lines[i]))])

\* ------------------------------------------------------- deprecated_method
\* the message built by decorator(): lines 60-65
DeprecationMessage(name, version, new_call_path) ==
    <<"Call to deprecated function '", name,
      "'. This method will be removed in version '", version, "'">>
    \o (IF Truthy(new_call_path)
        THEN <<" Please use ", BQ>> \o new_call_path.val \o <<BQ, " moving forward.">>
        ELSE <<>>)

\* the docstring template of lines 80-84 with its fields filled in
\* (format() runs before dedent())
FormattedTemplate(message, new_docstring) ==
    Spaces(TemplateIndent) \o message \o <<NL>>
    \o Spaces(TemplateIndent)
    \o <<"Docstring content from this method's replacement copied below:", NL>>
    \o Spaces(TemplateIndent) \o FormatValue(new_docstring) \o <<NL>>
    \o Spaces(TemplateIndent)

\* new_func.__doc__ as set by lines 78-90
WrappedDoc(message, new_method) ==
    IF new_method.some
    THEN dedent(FormattedTemplate(message, new_method.val.doc))
    ELSE message

\* deprecated_method(version, new_call_path, new_method)(method): the
\* wrapper, with the values its closure holds
decorator(name, version, new_call_path, new_method) ==
    LET message == DeprecationMessage(name, version, new_call_path)
    IN [marked |-> TRUE,
        name |-> name,
        to_be_removed_in_version |-> version,
        new_call_path |-> new_call_path,
        new_method |-> new_method,
        message |-> message,
        doc |-> WrappedDoc(message, new_method)]

Unmarked == [marked |-> FALSE]

\* ------------------------------------------------------------------ inputs
Threads == 1..NThreads
\* the thread the sequential specifications run
MainThread == CHOOSE t \in Threads : \A u \in Threads : t <= u
\* a call site: the line of the caller's module that calls the wrapper
Sites == 1..NSites
Methods == {"old_read", "old_write"}
Versions == {"1.0.0", "2.0.0"}
CallPaths == {None, Some(<<>>), Some(<<"new_op()">>)}
Docstrings ==
    { None,
      Some(<<"Read a secret.">>),
      Some(<<"Read a secret.", NL, "Second line.">>),
      Some(<<"Read a secret.", NL, NL, SP, SP, SP, SP, ":param path: where">>),
      Some(<<NL, SP, SP, SP, SP, "Read a secret.", NL, SP, SP, SP, SP>>),
      Some(<<"Read a secret.", NL, SP, SP, NL, "Second line.">>) }
NewMethods == {None} \cup {Some([doc |-> d]) : d \in Docstrings}
\* the arguments a caller passes; the original fails on "bad"
ArgTuples == {"x", "bad"}

StatusCodes == {400, 401, 403, 404, 429, 500, 501, 503, 200, 302, -1}
Messages == {None, Some(<<"secret not found">>)}
ErrorLists == {None, Some(<<>>), Some(<<"e1", "e2">>)}

\* the filter actions of the warnings module
FilterActions == {"error", "ignore", "always", "default", "module", "once"}

\* ------------------------------------------------------------------- state
VARIABLES
    wrapped,        \* method name -> the wrapper decorator() made, or Unmarked
    filters,        \* warnings.filters: the actions of the entries that match
                    \* DeprecationWarning, first entry first
    filtersMutated, \* the caller module's __warningregistrykey__ version
                    \* differs from warnings._filters_version
    registry,       \* the caller module's __warningregistry__: a set of keys
    onceregistry,   \* warnings.onceregistry
    sink,           \* the notices handed to warnings.showwarning, in order
    pc,             \* thread -> where it is inside new_func
    frame,          \* thread -> the running call's arguments and bookkeeping
    out,            \* thread -> how the running call ended
    ncalls,         \* invocations of wrapped operations started so far
    memo            \* a raise_for_error call its caller kept (the arguments,
                    \* the failure caught, whether it came before every
                    \* call of a wrapped operation), or None

vars == <<wrapped, filters, filtersMutated, registry, onceregistry, sink,
          pc, frame, out, ncalls, memo>>

processState == <<wrapped, filters, filtersMutated, registry, onceregistry, sink>>

NoFrame == [op |-> "none"]
NoOutcome == [type |-> "none"]

\* ------------------------------------------------------------- exceptions
\* hvac.exceptions.<kind>(message, errors=errors): the failure carries both
VaultError(kind, message, errors) ==
    [kind |-> kind, message |-> message, errors |-> errors]

Raise(exc) == [type |-> "raise", exc |-> exc]
Return(val) == [type |-> "return", val |-> val]

\* ------------------------------------------------ raise_for_error, mutated
\* 501 and 503 exchanged
raise_for_error_swapped(status_code, message, errors) ==
    IF status_code = 400 THEN Raise(VaultError("InvalidRequest", message, errors))
    ELSE IF status_code = 401 THEN Raise(VaultError("Unauthorized", message, errors))
    ELSE IF status_code = 403 THEN Raise(VaultError("Forbidden", message, errors))
    ELSE IF status_code = 404 THEN Raise(VaultError("InvalidPath", message, errors))
    ELSE IF status_code = 429 THEN Raise(VaultError("RateLimitExceeded", message, errors))
    ELSE IF status_code = 500 THEN Raise(VaultError("InternalServerError", message, errors))
    ELSE IF status_code = 501 THEN Raise(VaultError("VaultDown", message, errors))
    ELSE IF status_code = 503 THEN Raise(VaultError("VaultNotInitialized", message, errors))
    ELSE Raise(VaultError("UnexpectedError", message, None))

\* the fallback passes errors on like the other branches
raise_for_error_keeps_errors(status_code, message, errors) ==
    IF status_code = 400 THEN Raise(VaultError("InvalidRequest", message, errors))
    ELSE IF status_code = 401 THEN Raise(VaultError("Unauthorized", message, errors))
    ELSE IF status_code = 403 THEN Raise(VaultError("Forbidden", message, errors))
    ELSE IF status_code = 404 THEN Raise(VaultError("InvalidPath", message, errors))
    ELSE IF status_code = 429 THEN Raise(VaultError("RateLimitExceeded", message, errors))
    ELSE IF status_code = 500 THEN Raise(VaultError("InternalServerError", message, errors))
    ELSE IF status_code = 501 THEN Raise(VaultError("VaultNotInitialized", message, errors))
    ELSE IF status_code = 503 THEN Raise(VaultError("VaultDown", message, errors))
    ELSE Raise(VaultError("UnexpectedError", message, errors))

\* no else branch: an unmapped code falls off the end and None is returned
raise_for_error_no_else(status_code, message, errors) ==
    IF status_code = 400 THEN Raise(VaultError("InvalidRequest", message, errors))
    ELSE IF status_code = 401 THEN Raise(VaultError("Unauthorized", message, errors))
    ELSE IF status_code = 403 THEN Raise(VaultError("Forbidden", message, errors))
    ELSE IF status_code = 404 THEN Raise(VaultError("InvalidPath", message, errors))
    ELSE IF status_code = 429 THEN Raise(VaultError("RateLimitExceeded", message, errors))
    ELSE IF status_code = 500 THEN Raise(VaultError("InternalServerError", message, errors))
    ELSE IF status_code = 501 THEN Raise(VaultError("VaultNotInitialized", message, errors))
    ELSE IF status_code = 503 THEN Raise(VaultError("VaultDown", message, errors))
    ELSE Return(None)

\* --------------------------------------------------------- raise_for_error
raise_for_error(status_code, message, errors) ==
    IF status_code = 400 THEN Raise(VaultError("InvalidRequest", message, errors))
    ELSE IF status_code = 401 THEN Raise(VaultError("Unauthorized", message, errors))
    ELSE IF status_code = 403 THEN Raise(VaultError("Forbidden", message, errors))
    ELSE IF status_code = 404 THEN Raise(VaultError("InvalidPath", message, errors))
    ELSE IF status_code = 429 THEN Raise(VaultError("RateLimitExceeded", message, errors))
    ELSE IF status_code = 500 THEN Raise(VaultError("InternalServerError", message, errors))
    ELSE IF status_code = 501 THEN Raise(VaultError("VaultNotInitialized", message, errors))
    ELSE IF status_code = 503 THEN Raise(VaultError("VaultDown", message, errors))
    ELSE Raise(VaultError("UnexpectedError", message, None))

\* ---------------------------------------------------------------- warnings
\* warnings.simplefilter(action, DeprecationWarning): a duplicate entry is
\* removed and the entry is inserted at the front
simplefilter(action, fs) ==
    <<action>> \o SelectSeq(fs, LAMBDA a : a # action)

\* the action of the first matching filter, else warnings.defaultaction
FilterAction(fs) == IF Len(fs) > 0 THEN Head(fs) ELSE "default"

\* warnings.warn_explicit for a DeprecationWarning with this text raised at
\* this site: what happens to the registries and whether the warning is
\* shown, raised or dropped
warn_explicit(text, site, fs, mutated, reg, once) ==
    LET reg0 == IF mutated THEN {} ELSE reg
        key == <<text, site>>
        altkey == <<text, 0>>
        action == FilterAction(fs)
    IN IF key \in reg0
       THEN [show |-> FALSE, raise |-> FALSE, reg |-> reg0, once |-> once]
       ELSE CASE action = "ignore" ->
                   [show |-> FALSE, raise |-> FALSE, reg |-> reg0, once |-> once]
              [] action = "error" ->
                   [show |-> FALSE, raise |-> TRUE, reg |-> reg0, once |-> once]
              [] action = "once" ->
                   [show |-> text \notin once, raise |-> FALSE,
                    reg |-> reg0 \cup {key}, once |-> once \cup {text}]
              [] action = "always" ->
                   [show |-> TRUE, raise |-> FALSE, reg |-> reg0, once |-> once]
              [] action = "module" ->
                   [show |-> altkey \notin reg0, raise |-> FALSE,
                    reg |-> reg0 \cup {key, altkey}, once |-> once]
              [] OTHER ->
                   [show |-> TRUE, raise |-> FALSE,
                    reg |-> reg0 \cup {key}, once |-> once]

\* the decorated method itself: what it does with the arguments it is given
Original(name, args) ==
    IF args = "bad" THEN Raise([kind |-> "OperationFailed", name |-> name, args |-> args])
    ELSE Return(<<name, args>>)

\* the failure of warnings.showwarning (a replaced hook, an unwritable stream)
SinkFailure == Raise([kind |-> "SinkFailure"])

\* the warning itself raised as an exception under the "error" action
WarningRaised(text) == Raise([kind |-> "DeprecationWarning", text |-> text])

\* ------------------------------------------------------------------- Init
\* the library after import: its deprecated operations are wrapped
LibraryWrapped ==
    [m \in Methods |->
        IF m = "old_read"
        THEN decorator(m, "1.0.0", None, None)
        ELSE decorator(m, "2.0.0", Some(<<"new_op()">>), None)]

InitCommon ==
    /\ filtersMutated = FALSE
    /\ registry = {}
    /\ onceregistry = {}
    /\ sink = <<>>
    /\ pc = [t \in Threads |-> "idle"]
    /\ frame = [t \in Threads |-> NoFrame]
    /\ out = [t \in Threads |-> NoOutcome]
    /\ ncalls = 0
    /\ memo = None

\* the application may have installed any filter for DeprecationWarning, or none
Init ==
    /\ wrapped = LibraryWrapped
    /\ filters \in {<<>>} \cup {<<a>> : a \in FilterActions}
    /\ InitCommon

\* ---------------------------------------------------------------- actions
\* deprecated_method(version, new_call_path, new_method) applied to a method
Decorate(m, version, new_call_path, new_method) ==
    /\ ~wrapped[m].marked
    /\ wrapped' = [wrapped EXCEPT ![m] = decorator(m, version, new_call_path, new_method)]
    /\ UNCHANGED <<filters, filtersMutated, registry, onceregistry, sink,
                   pc, frame, out, ncalls, memo>>

\* a caller at `site` invokes the wrapper of m with args: new_func is entered
CallWrapped(t, m, site, args) ==
    /\ pc[t] = "idle"
    /\ wrapped[m].marked
    /\ ncalls < MaxCalls
    /\ pc' = [pc EXCEPT ![t] = "set_always"]
    /\ frame' = [frame EXCEPT ![t] =
                    [op |-> "wrapped", method |-> m, site |-> site, args |-> args,
                     emitted |-> 0, sinkFailed |-> FALSE, delegated |-> <<>>]]
    /\ ncalls' = ncalls + 1
    /\ UNCHANGED <<wrapped, filters, filtersMutated, registry, onceregistry,
                   sink, out, memo>>

\* mutated: the filter is set to 'once' instead of 'always'
SetOnce(t) ==
    /\ pc[t] = "set_always"
    /\ filters' = simplefilter("once", filters)
    /\ filtersMutated' = TRUE
    /\ pc' = [pc EXCEPT ![t] = "warn"]
    /\ UNCHANGED <<wrapped, registry, onceregistry, sink, frame, out, ncalls, memo>>

\* line 69: warnings.simplefilter('always', DeprecationWarning)
SetAlways(t) ==
    /\ pc[t] = "set_always"
    /\ filters' = simplefilter("always", filters)
    /\ filtersMutated' = TRUE
    /\ pc' = [pc EXCEPT ![t] = "warn"]
    /\ UNCHANGED <<wrapped, registry, onceregistry, sink, frame, out, ncalls, memo>>

\* lines 71-75: warnings.warn(message, DeprecationWarning, stacklevel=2); the
\* sink either takes the notice or fails on it
Warn(t) ==
    /\ pc[t] = "warn"
    /\ \E sinkOk \in BOOLEAN :
         LET text == wrapped[frame[t].method].message
             r == warn_explicit(text, frame[t].site, filters, filtersMutated,
                                registry, onceregistry)
             failed == r.show /\ ~sinkOk
         IN /\ registry' = r.reg
            /\ onceregistry' = r.once
            /\ filtersMutated' = FALSE
            /\ sink' = IF r.show
                       THEN Append(sink, [text |-> text, category |-> "DeprecationWarning"])
                       ELSE sink
            /\ frame' = [frame EXCEPT ![t].emitted = IF r.show THEN @ + 1 ELSE @,
                                      ![t].sinkFailed = failed]
            /\ pc' = [pc EXCEPT ![t] = IF r.raise \/ failed THEN "done" ELSE "reset"]
            /\ out' = [out EXCEPT ![t] = IF r.raise THEN WarningRaised(text)
                                         ELSE IF failed THEN SinkFailure
                                         ELSE @]
    /\ UNCHANGED <<wrapped, filters, ncalls, memo>>

\* mutated: the filter is not reset after the warning
ResetSkipped(t) ==
    /\ pc[t] = "reset"
    /\ pc' = [pc EXCEPT ![t] = "delegate"]
    /\ UNCHANGED <<wrapped, filters, filtersMutated, registry, onceregistry,
                   sink, frame, out, ncalls, memo>>

\* line 76: warnings.simplefilter('default', DeprecationWarning)
ResetDefault(t) ==
    /\ pc[t] = "reset"
    /\ filters' = simplefilter("default", filters)
    /\ filtersMutated' = TRUE
    /\ pc' = [pc EXCEPT ![t] = "delegate"]
    /\ UNCHANGED <<wrapped, registry, onceregistry, sink, frame, out, ncalls, memo>>

\* line 77: return method(*args, **kwargs)
Delegate(t) ==
    /\ pc[t] = "delegate"
    /\ frame' = [frame EXCEPT ![t].delegated = Append(@, frame[t].args)]
    /\ out' = [out EXCEPT ![t] = Original(frame[t].method, frame[t].args)]
    /\ pc' = [pc EXCEPT ![t] = "done"]
    /\ UNCHANGED <<wrapped, filters, filtersMutated, registry, onceregistry,
                   sink, ncalls, memo>>

\* the caller takes the result or the failure; the call's frame is gone
Finish(t) ==
    /\ pc[t] = "done"
    /\ pc' = [pc EXCEPT ![t] = "idle"]
    /\ frame' = [frame EXCEPT ![t] = NoFrame]
    /\ out' = [out EXCEPT ![t] = NoOutcome]
    /\ UNCHANGED <<wrapped, filters, filtersMutated, registry, onceregistry,
                   sink, ncalls, memo>>

\* mutated: raise_for_error announces itself with a warning filter change
RaiseForErrorTouchesFilters(t, status_code, message, errors) ==
    /\ pc[t] = "idle"
    /\ frame' = [frame EXCEPT ![t] =
                    [op |-> "raise_for_error", status_code |-> status_code,
                     message |-> message, errors |-> errors]]
    /\ out' = [out EXCEPT ![t] = raise_for_error(status_code, message, errors)]
    /\ filters' = simplefilter("default", filters)
    /\ filtersMutated' = TRUE
    /\ pc' = [pc EXCEPT ![t] = "done"]
    /\ UNCHANGED <<wrapped, registry, onceregistry, sink, ncalls, memo>>

\* a call of raise_for_error(status_code, message, errors), whole
RaiseForError(t, status_code, message, errors) ==
    /\ pc[t] = "idle"
    /\ LET result == raise_for_error(status_code, message, errors)
           call == [status_code |-> status_code, message |-> message,
                    errors |-> errors, result |-> result, early |-> ncalls = 0]
       IN /\ frame' = [frame EXCEPT ![t] =
                          [op |-> "raise_for_error", status_code |-> status_code,
                           message |-> message, errors |-> errors]]
          /\ out' = [out EXCEPT ![t] = result]
          /\ \E remember \in BOOLEAN :
                memo' = IF remember THEN Some(call) ELSE memo
    /\ pc' = [pc EXCEPT ![t] = "done"]
    /\ UNCHANGED <<wrapped, filters, filtersMutated, registry, onceregistry,
                   sink, ncalls>>

\* ---------------------------------------------------------- specifications
\* one thread of control: calls follow each other
Next ==
    \/ \E m \in Methods, s \in Sites, a \in ArgTuples : CallWrapped(MainThread, m, s, a)
    \/ SetAlways(MainThread)
    \/ Warn(MainThread)
    \/ ResetDefault(MainThread)
    \/ Delegate(MainThread)
    \/ Finish(MainThread)

Spec == Init /\ [][Next]_vars

\* one thread of control that also classifies responses: calls of
\* raise_for_error between calls of wrapped operations
InitClassify ==
    /\ wrapped = LibraryWrapped
    /\ filters = <<>>
    /\ InitCommon

NextClassify ==
    \/ \E c \in StatusCodes, msg \in Messages, e \in ErrorLists :
          RaiseForError(MainThread, c, msg, e)
    \/ \E m \in Methods, s \in Sites, a \in ArgTuples : CallWrapped(MainThread, m, s, a)
    \/ SetAlways(MainThread)
    \/ Warn(MainThread)
    \/ ResetDefault(MainThread)
    \/ Delegate(MainThread)
    \/ Finish(MainThread)

SpecClassify == InitClassify /\ [][NextClassify]_vars

\* several threads call wrapped operations; the lines of new_func interleave
InitConc ==
    /\ wrapped = LibraryWrapped
    /\ filters = <<>>
    /\ InitCommon

NextConc ==
    \E t \in Threads :
        \/ \E m \in Methods, s \in Sites, a \in ArgTuples : CallWrapped(t, m, s, a)
        \/ SetAlways(t)
        \/ Warn(t)
        \/ ResetDefault(t)
        \/ Delegate(t)
        \/ Finish(t)

SpecConc == InitConc /\ [][NextConc]_vars

\* marking time: the decorator applied to the library's methods
InitMark ==
    /\ wrapped = [m \in Methods |-> Unmarked]
    /\ filters = <<>>
    /\ InitCommon

NextMark ==
    \E m \in Methods, v \in Versions, p \in CallPaths, nm \in NewMethods :
        Decorate(m, v, p, nm)

SpecMark == InitMark /\ [][NextMark]_vars

\* ------------------------------------------------------------------ claims
\* sub occurs in text as a run of consecutive characters
Contains(text, sub) ==
    \E i \in 0..(Len(text) - Len(sub)) : SubSeq(text, i + 1, i + Len(sub)) = sub

\* the mapping table of the specification, section 4.1
MappedCodes == {400, 401, 403, 404, 429, 500, 501, 503}
MappingTable ==
    [c \in MappedCodes |->
        CASE c = 400 -> "InvalidRequest"
          [] c = 401 -> "Unauthorized"
          [] c = 403 -> "Forbidden"
          [] c = 404 -> "InvalidPath"
          [] c = 429 -> "RateLimitExceeded"
          [] c = 500 -> "InternalServerError"
          [] c = 501 -> "VaultNotInitialized"
          [] c = 503 -> "VaultDown"]
FailureKinds == {MappingTable[c] : c \in MappedCodes} \cup {"UnexpectedError"}

Classified(t) == pc[t] = "done" /\ frame[t].op = "raise_for_error"
InWrapped(t) == frame[t].op = "wrapped"

\* C1: for each of the eight mapped status codes, raise_for_error raises the
\* exception of the mapping table, and the exception carries the message and
\* the errors it was given, unchanged.
C1_MappedCodes ==
    \A t \in Threads :
        (Classified(t) /\ frame[t].status_code \in MappedCodes) =>
            out[t] = [type |-> "raise",
                      exc |-> [kind |-> MappingTable[frame[t].status_code],
                               message |-> frame[t].message,
                               errors |-> frame[t].errors]]

C1_Witness ==
    /\ Classified(MainThread)
    /\ frame[MainThread].status_code = 501
    /\ frame[MainThread].message = Some(<<"secret not found">>)
    /\ frame[MainThread].errors = Some(<<"e1", "e2">>)
    /\ out[MainThread].exc.kind = "VaultNotInitialized"

\* C2: for every status code outside the mapped eight, raise_for_error
\* raises UnexpectedError carrying the message only: its errors are None
\* whatever errors were passed.
C2_Fallback ==
    \A t \in Threads :
        (Classified(t) /\ frame[t].status_code \notin MappedCodes) =>
            out[t] = [type |-> "raise",
                      exc |-> [kind |-> "UnexpectedError",
                               message |-> frame[t].message,
                               errors |-> None]]

C2_Witness ==
    /\ Classified(MainThread)
    /\ frame[MainThread].status_code = 200
    /\ frame[MainThread].errors = Some(<<"e1", "e2">>)
    /\ out[MainThread].exc.kind = "UnexpectedError"
    /\ out[MainThread].exc.errors = None

\* C3: a call of raise_for_error never returns normally: it ends by raising
\* exactly one exception, of one of the nine kinds.
C3_AlwaysRaises ==
    \A t \in Threads :
        Classified(t) =>
            /\ out[t].type = "raise"
            /\ out[t].exc.kind \in FailureKinds

C3_Witness ==
    /\ Classified(MainThread)
    /\ frame[MainThread].status_code = -1
    /\ frame[MainThread].message = None
    /\ out[MainThread].type = "raise"

\* the last notice the sink was handed names this method and the version it
\* was marked with
LastNoticeNames(m) ==
    /\ Len(sink) > 0
    /\ \E i \in 1..Len(sink[Len(sink)].text) : sink[Len(sink)].text[i] = m
    /\ \E i \in 1..Len(sink[Len(sink)].text) :
          sink[Len(sink)].text[i] = wrapped[m].to_be_removed_in_version
    /\ sink[Len(sink)].text = wrapped[m].message

\* C4: in a sequential run every invocation of a wrapped operation hands
\* exactly one notice to the sink, before it delegates; after n invocations
\* the sink holds n notices, whatever filter was installed before, and the
\* notice names the operation and the version given when it was marked.
C4_OneNoticePerCall ==
    /\ Len(sink) = ncalls - (IF pc[MainThread] \in {"set_always", "warn"} THEN 1 ELSE 0)
    /\ \A t \in Threads :
          InWrapped(t) =>
              /\ pc[t] \in {"set_always", "warn"} => frame[t].emitted = 0
              /\ pc[t] \in {"reset", "delegate", "done"} =>
                    /\ frame[t].emitted = 1
                    /\ LastNoticeNames(frame[t].method)
              /\ frame[t].delegated # <<>> => frame[t].emitted = 1

C4_Witness ==
    /\ ncalls = 3
    /\ Len(sink) = 3
    /\ pc[MainThread] = "done"
    /\ frame[MainThread].op = "wrapped"
    /\ frame[MainThread].delegated # <<>>
    /\ frame[MainThread].site = 2
    /\ sink[1].text # sink[2].text
    /\ sink[2].text = sink[3].text
    /\ \E i \in 1..Len(filters) : filters[i] = "ignore"

\* C5 (as claimed): every invocation of a wrapped operation calls the
\* original exactly once with the arguments it was given, and ends the way
\* the original ends, the notice having been emitted.
C5_Equivalent ==
    \A t \in Threads :
        (pc[t] = "done" /\ InWrapped(t)) =>
            /\ frame[t].delegated = <<frame[t].args>>
            /\ out[t] = Original(frame[t].method, frame[t].args)
            /\ frame[t].emitted = 1

\* C6 (as claimed): when the sink fails on the notice, the wrapped operation
\* still runs and the caller gets the original's own result or failure.
C6_SinkFailureSwallowed ==
    \A t \in Threads :
        (pc[t] = "done" /\ InWrapped(t) /\ frame[t].sinkFailed) =>
            /\ frame[t].delegated = <<frame[t].args>>
            /\ out[t] = Original(frame[t].method, frame[t].args)

\* C7 (as claimed): with several threads inside wrapped operations, every
\* invocation that is past its warn has emitted exactly one notice (stated
\* for the runs in which the sink takes every notice it is handed).
C7_OneNoticeConcurrent ==
    (\A u \in Threads : InWrapped(u) => ~frame[u].sinkFailed) =>
        \A t \in Threads :
            (InWrapped(t) /\ pc[t] \in {"reset", "delegate", "done"}) =>
                frame[t].emitted = 1

\* the documentation text holds the notice text and, after it, the
\* replacement's documentation text, each character for character
NoticeThenDoc(doc, message, new_docstring) ==
    \E i \in 0..(Len(doc) - Len(message)) :
        /\ SubSeq(doc, i + 1, i + Len(message)) = message
        /\ Contains(SubSeq(doc, i + Len(message) + 1, Len(doc)), new_docstring)

\* C8 (as claimed): the wrapper's documentation is the notice text when no
\* replacement method is given; with one, it is the notice text followed by
\* the replacement's documentation text; and the notice and the
\* documentation contain a given replacement reference literally.
C8_Documentation ==
    \A m \in Methods :
        wrapped[m].marked =>
            /\ ~wrapped[m].new_method.some => wrapped[m].doc = wrapped[m].message
            /\ (wrapped[m].new_method.some /\ wrapped[m].new_method.val.doc.some) =>
                  NoticeThenDoc(wrapped[m].doc, wrapped[m].message,
                                wrapped[m].new_method.val.doc.val)
            /\ wrapped[m].new_call_path.some =>
                  /\ Contains(wrapped[m].message, wrapped[m].new_call_path.val)
                  /\ Contains(wrapped[m].doc, wrapped[m].new_call_path.val)

\* a raise_for_error call with the arguments of the remembered one raises
\* what the remembered one raised
SameAsRemembered ==
    \A t \in Threads :
        (/\ Classified(t)
         /\ memo.some
         /\ memo.val.status_code = frame[t].status_code
         /\ memo.val.message = frame[t].message
         /\ memo.val.errors = frame[t].errors) => out[t] = memo.val.result

\* a step that enters raise_for_error leaves the process-wide state alone
RaiseForErrorFrame ==
    \A t \in Threads :
        (pc[t] = "idle" /\ pc'[t] = "done" /\ frame'[t].op = "raise_for_error") =>
            UNCHANGED processState

C10_FilterLeftDefault ==
    \A t \in Threads :
        InWrapped(t) =>
            /\ pc[t] = "delegate" => FilterAction(filters) = "default"
            /\ (pc[t] = "done" /\ ~frame[t].sinkFailed) =>
                  FilterAction(filters) = "default"
            /\ (pc[t] = "done" /\ frame[t].sinkFailed) =>
                  FilterAction(filters) = "always"

C10_Witness ==
    /\ pc[MainThread] = "done"
    /\ InWrapped(MainThread)
    /\ out[MainThread].type = "raise"
    /\ frame[MainThread].delegated # <<>>
    /\ filters = <<"default", "always", "ignore">>

====
